---- MODULE Spec2Model ----
(***************************************************************************)
(* Model of the compile-time path router of                                *)
(* shared/src/ledger/queries/router.rs: the matcher generated by           *)
(* `router!` (internal_handle, try_match!, try_match_segments!,            *)
(* handle_match!) and the path builders generated by                       *)
(* pattern_and_handler_to_method!.                                         *)
(*                                                                         *)
(* A path is the sequence of the bytes of request.path.  A byte of an     *)
(* ASCII character is written as the one-character string of it; the two   *)
(* bytes of the UTF-8 encoding of U+00E9 are written "C3" and "A9".        *)
(* Offsets (start, end) are the 0-based byte offsets of the Rust code;     *)
(* Slice(p, s, e) is p[s..e].                                              *)
(***************************************************************************)
EXTENDS Integers, Sequences, FiniteSets, TLC

(***************************************************************************)
(* Text helpers                                                            *)
(***************************************************************************)

\* &path[s..e]
Slice(p, s, e) == SubSeq(p, s + 1, e)

\* The bytes 10xxxxxx that continue a character of more than one byte.
ContinuationBytes == {"A9"}
\* The bytes that begin a character of more than one byte.
LeadBytes == {"C3"}

\* str::is_char_boundary: the offsets at which a str may be sliced; a
\* slice at any other offset panics.
is_char_boundary(p, i) ==
    \/ i = 0
    \/ i = Len(p)
    \/ i < Len(p) /\ p[i + 1] \notin ContinuationBytes

IsAscii(p) == \A i \in 1..Len(p) : p[i] \notin ContinuationBytes \cup LeadBytes

\* find_next_slash_index(path, start): index of the next '/' at or after
\* start, or path.len() when there is none.
find_next_slash_index(p, s) ==
    LET hits == {j \in s..(Len(p) - 1) : p[j + 1] = "/"}
    IN  IF hits = {} THEN Len(p)
        ELSE CHOOSE j \in hits : \A k \in hits : j <= k

Digits == <<"0", "1", "2", "3", "4", "5", "6", "7", "8", "9">>

IsDigit(c) == \E d \in 1..10 : Digits[d] = c

DigitVal(c) == (CHOOSE d \in 1..10 : Digits[d] = c) - 1

RECURSIVE ParseNat(_)
ParseNat(t) ==
    IF t = <<>> THEN 0
    ELSE ParseNat(SubSeq(t, 1, Len(t) - 1)) * 10 + DigitVal(t[Len(t)])

\* <text>.parse::<$arg_ty>() for the argument types of the test routers
\* (token::Amount, Epoch): a non-empty run of decimal digits is a value,
\* anything else (the empty text, letters, a text holding '/') is Err.
ParseArg(t) ==
    IF t # <<>> /\ \A i \in 1..Len(t) : IsDigit(t[i])
    THEN [ok |-> TRUE, v |-> ParseNat(t)]
    ELSE [ok |-> FALSE, v |-> 0]

\* value.to_string()
RECURSIVE to_string(_)
to_string(n) ==
    IF n < 10 THEN <<Digits[n + 1]>>
    ELSE to_string(n \div 10) \o <<Digits[(n % 10) + 1]>>

\* itertools::join(parts, "/")
RECURSIVE JoinSlash(_)
JoinSlash(parts) ==
    IF parts = <<>> THEN <<>>
    ELSE IF Len(parts) = 1 THEN parts[1]
    ELSE parts[1] \o <<"/">> \o JoinSlash(Tail(parts))

(***************************************************************************)
(* Argument values bound by the matcher                                    *)
(***************************************************************************)

ValArg(v)  == [t |-> "val",  n |-> v, s |-> <<>>]
SomeArg(v) == [t |-> "some", n |-> v, s |-> <<>>]
NoneArg    == [t |-> "none", n |-> 0, s |-> <<>>]
StrArg(x)  == [t |-> "str",  n |-> 0, s |-> x]

(***************************************************************************)
(* Router declarations                                                     *)
(***************************************************************************)

Lit(x)   == [k |-> "lit", s |-> x, ty |-> ""]
Typed(ty) == [k |-> "typed", s |-> <<>>, ty |-> ty]
Opt(ty)   == [k |-> "opt", s |-> <<>>, ty |-> ty]
Untyped   == [k |-> "untyped", s |-> <<>>, ty |-> "str"]

Fn(name)     == [t |-> "fn", name |-> name, alts |-> <<>>]
Sub(name)    == [t |-> "sub", name |-> name, alts |-> <<>>]
Group(alts)  == [t |-> "group", name |-> "", alts |-> alts]
Route(pat, h) == [pat |-> pat, h |-> h]

\* router! {TEST_SUB_RPC, ...}
TEST_SUB_RPC ==
    << Route(<<Lit(<<"x">>)>>, Fn("x")),
       Route(<<Lit(<<"y">>), Untyped>>, Fn("y")),
       Route(<<Lit(<<"z">>), Untyped>>, Fn("z")) >>

\* router! {TEST_RPC, ...}
TEST_RPC ==
    << Route(<<Lit(<<"s", "u", "b">>)>>, Sub("TEST_SUB_RPC")),
       Route(<<Lit(<<"a">>)>>, Fn("a")),
       Route(<<Lit(<<"b">>)>>, Group(<<
           Route(<<Lit(<<"0">>)>>, Group(<<
               Route(<<Lit(<<"i">>)>>, Fn("b0i")),
               Route(<<Lit(<<"i", "i">>)>>, Fn("b0ii")) >>)),
           Route(<<Lit(<<"1">>)>>, Fn("b1")),
           Route(<<Lit(<<"2">>)>>, Group(<<
               Route(<<Lit(<<"i">>), Typed("Amount")>>, Fn("b2i")) >>)),
           Route(<<Lit(<<"3">>), Typed("Amount"), Typed("Amount")>>, Group(<<
               Route(<<Lit(<<"i">>), Typed("Amount")>>, Fn("b3i")),
               Route(<<Typed("Amount")>>, Fn("b3")),
               Route(<<Typed("Amount"), Lit(<<"i", "i">>)>>, Fn("b3ii")),
               Route(<<Opt("Amount"), Lit(<<"i", "i", "i">>)>>, Fn("b3iii")),
               Route(<<Lit(<<"i", "i", "i", "i">>), Opt("Amount"),
                       Lit(<<"x", "y", "z">>), Opt("Epoch")>>, Fn("b3iiii"))
           >>)) >>)) >>

\* A further instantiation of router!, with routes that overlap: a route
\* declared after a sub-router route with the same prefix, a catch-all
\* followed by an untyped argument at the same position, and a route
\* declared after a group with the same prefix.
OVERLAP_RPC ==
    << Route(<<Lit(<<"s", "u", "b">>)>>, Sub("TEST_SUB_RPC")),
       Route(<<Lit(<<"k">>), Typed("Amount")>>, Fn("k1")),
       Route(<<Lit(<<"k">>), Untyped>>, Fn("k2")),
       Route(<<Lit(<<"s", "u", "b">>), Lit(<<"q">>)>>, Fn("sq")),
       Route(<<Lit(<<"g">>)>>, Group(<<
           Route(<<Lit(<<"1">>)>>, Fn("g1")) >>)),
       Route(<<Lit(<<"g">>), Untyped>>, Fn("g2")) >>

Routers(name) ==
    CASE name = "TEST_RPC" -> TEST_RPC
      [] name = "TEST_SUB_RPC" -> TEST_SUB_RPC
      [] name = "OVERLAP_RPC" -> OVERLAP_RPC

\* The route reached from a list of routes by the alternative indices in
\* pos: pos[1] selects a route of the list, pos[2] an alternative of its
\* sub-pattern group, and so on.
RECURSIVE RouteAt(_, _)
RouteAt(routes, pos) ==
    IF Len(pos) = 1 THEN routes[pos[1]]
    ELSE RouteAt(routes[pos[1]].h.alts, Tail(pos))

\* The alternatives among which pos[Len(pos)] selects.
RECURSIVE AltsAt(_, _)
AltsAt(routes, pos) ==
    IF Len(pos) = 1 THEN routes
    ELSE AltsAt(routes[pos[1]].h.alts, Tail(pos))

(***************************************************************************)
(* Segment matching (try_match_segments!)                                  *)
(*                                                                         *)
(* Each rule yields: ok (FALSE is `break`), the cursor behind it, the      *)
(* arguments it binds, and the text it compared or parsed.                 *)
(***************************************************************************)

\* Advance stepping over the next character without looking whether there
\* is one.
AdvanceUnchecked(p, e) ==
    [start |-> e + 1,
     end |-> IF e + 1 >= Len(p) THEN e + 1
             ELSE find_next_slash_index(p, e + 1)]

\* Advance without the search for the next '/'.
AdvanceKeepsEnd(p, e) ==
    LET s1 == IF e + 1 < Len(p) THEN e + 1 ELSE e
    IN  [start |-> s1, end |-> IF s1 < Len(p) THEN s1 + 1 ELSE s1]

\* "$start = $end; if $start + 1 < path.len() { $start += 1 };
\*  $end = find_next_slash_index(path, $start)"
Advance(p, e) ==
    LET s1 == IF e + 1 < Len(p) THEN e + 1 ELSE e
    IN  [start |-> s1, end |-> find_next_slash_index(p, s1)]

\* MatchLiteral accepting a segment that the literal is a prefix of.
MatchLiteralPrefix(p, s, e, lit) ==
    IF Len(lit) <= e - s /\ Slice(p, s, s + Len(lit)) = lit
    THEN [ok |-> TRUE, start |-> Advance(p, e).start,
          end |-> Advance(p, e).end, bind |-> <<>>, text |-> Slice(p, s, e)]
    ELSE [ok |-> FALSE, start |-> s, end |-> e, bind |-> <<>>,
          text |-> Slice(p, s, e)]

\* An expected string literal.
MatchLiteral(p, s, e, lit) ==
    IF Slice(p, s, e) = lit
    THEN [ok |-> TRUE, start |-> Advance(p, e).start,
          end |-> Advance(p, e).end, bind |-> <<>>, text |-> Slice(p, s, e)]
    ELSE [ok |-> FALSE, start |-> s, end |-> e, bind |-> <<>>,
          text |-> Slice(p, s, e)]

\* MatchUntyped leaving the route when the text is empty.
MatchUntypedNonEmpty(p, s, e) ==
    IF Slice(p, s, e) # <<>>
    THEN [ok |-> TRUE, start |-> Advance(p, e).start,
          end |-> Advance(p, e).end,
          bind |-> <<StrArg(Slice(p, s, e))>>, text |-> Slice(p, s, e)]
    ELSE [ok |-> FALSE, start |-> s, end |-> e, bind |-> <<>>,
          text |-> Slice(p, s, e)]

\* An untyped argument [$arg].
MatchUntyped(p, s, e) ==
    [ok |-> TRUE, start |-> Advance(p, e).start, end |-> Advance(p, e).end,
     bind |-> <<StrArg(Slice(p, s, e))>>, text |-> Slice(p, s, e)]

\* MatchOpt advancing the cursor also when the text does not parse.
MatchOptConsuming(p, s, e) ==
    [ok |-> TRUE, start |-> Advance(p, e).start, end |-> Advance(p, e).end,
     bind |-> IF ParseArg(Slice(p, s, e)).ok
              THEN <<SomeArg(ParseArg(Slice(p, s, e)).v)>>
              ELSE <<NoneArg>>,
     text |-> Slice(p, s, e)]

\* An optional typed argument [$arg: opt $arg_ty].
MatchOpt(p, s, e) ==
    IF ParseArg(Slice(p, s, e)).ok
    THEN [ok |-> TRUE, start |-> Advance(p, e).start,
          end |-> Advance(p, e).end,
          bind |-> <<SomeArg(ParseArg(Slice(p, s, e)).v)>>,
          text |-> Slice(p, s, e)]
    ELSE [ok |-> TRUE, start |-> s, end |-> e, bind |-> <<NoneArg>>,
          text |-> Slice(p, s, e)]

\* MatchCatchAll parsing one segment only.
MatchCatchAllOneSegment(p, s, e) ==
    IF ParseArg(Slice(p, s, e)).ok
    THEN [ok |-> TRUE, start |-> s, end |-> Len(p),
          bind |-> <<ValArg(ParseArg(Slice(p, s, e)).v)>>,
          text |-> Slice(p, s, e)]
    ELSE [ok |-> FALSE, start |-> s, end |-> Len(p), bind |-> <<>>,
          text |-> Slice(p, s, e)]

\* A typed argument that ends the pattern of a handler function: parsed
\* from the rest of the path.
MatchCatchAll(p, s, e) ==
    IF ParseArg(Slice(p, s, Len(p))).ok
    THEN [ok |-> TRUE, start |-> s, end |-> Len(p),
          bind |-> <<ValArg(ParseArg(Slice(p, s, Len(p))).v)>>,
          text |-> Slice(p, s, Len(p))]
    ELSE [ok |-> FALSE, start |-> s, end |-> Len(p), bind |-> <<>>,
          text |-> Slice(p, s, Len(p))]

\* A typed argument [$arg: $arg_ty] followed by more of the pattern, or
\* ending the pattern of a sub-pattern group.
MatchTyped(p, s, e) ==
    IF ParseArg(Slice(p, s, e)).ok
    THEN [ok |-> TRUE, start |-> Advance(p, e).start,
          end |-> Advance(p, e).end,
          bind |-> <<ValArg(ParseArg(Slice(p, s, e)).v)>>,
          text |-> Slice(p, s, e)]
    ELSE [ok |-> FALSE, start |-> s, end |-> e, bind |-> <<>>,
          text |-> Slice(p, s, e)]

\* Which macro rule a segment of a route's pattern selects: the rule for
\* the terminal typed argument applies when the handle is an identifier
\* and nothing follows the argument.
SegKind(route, i) ==
    IF route.pat[i].k = "typed" /\ i = Len(route.pat) /\ route.h.t = "fn"
    THEN "catchall"
    ELSE route.pat[i].k

MatchSeg(p, route, i, s, e) ==
    CASE SegKind(route, i) = "lit" -> MatchLiteral(p, s, e, route.pat[i].s)
      [] SegKind(route, i) = "untyped" -> MatchUntyped(p, s, e)
      [] SegKind(route, i) = "opt" -> MatchOpt(p, s, e)
      [] SegKind(route, i) = "catchall" -> MatchCatchAll(p, s, e)
      [] SegKind(route, i) = "typed" -> MatchTyped(p, s, e)

\* Terminated without the tolerance for a trailing slash.
TerminatedStrict(p, e) == e = Len(p)

\* handle_match!, handler arm: "check that we're at the end of the path -
\* trailing slash is optional".
Terminated(p, e) ==
    \/ e = Len(p)
    \/ e = Len(p) - 1 /\ Slice(p, e, Len(p)) = <<"/">>

\* try_match! up to the first segment: "break" when the path is empty or
\* its first byte is not '/', or when nothing follows the '/' behind
\* start; "panic" when &path[..1] cuts the first character of the path in
\* two; "go" else.
TryMatchStart(p, s) ==
    IF p = <<>> THEN "break"
    ELSE IF ~is_char_boundary(p, 1) THEN "panic"
    ELSE IF Slice(p, 0, 1) # <<"/">> THEN "break"
    ELSE IF s + 1 >= Len(p) THEN "break"
    ELSE "go"

\* handle_match!, nested router: "$start -= 1".
SubStart(s) == s - 1

(***************************************************************************)
(* Request paths                                                           *)
(***************************************************************************)

\* Longest run of free segments in the short request paths.
MaxSegs == 2
\* Longest run of free segments behind a fixed prefix of a route.
MaxTail == 3

\* All sequences of at most n segments drawn from toks.
RECURSIVE Tails(_, _)
Tails(toks, n) ==
    IF n = 0 THEN {<<>>}
    ELSE Tails(toks, n - 1)
             \cup {<<t>> \o r : t \in toks, r \in Tails(toks, n - 1)}

\* "/" followed by the segments joined with "/".  An empty segment gives
\* "//" inside a path and a trailing "/" at its end.
PathOf(segs) == <<"/">> \o JoinSlash(segs)

sSub == <<"s", "u", "b">>
sII == <<"i", "i">>
sIII == <<"i", "i", "i">>
sIIII == <<"i", "i", "i", "i">>
sXyz == <<"x", "y", "z">>
\* The bytes of "\u{e9}".
sE == <<"C3", "A9">>

TokTop == {<<>>, <<"a">>, <<"A">>, <<"b">>, sSub, <<"0">>, <<"1">>, <<"2">>,
           <<"3">>, <<"i">>, sII, <<"x">>, <<"y">>, <<"5">>, <<"q", "q">>}
TokB == {<<>>, <<"0">>, <<"1">>, <<"2">>, <<"3">>, <<"i">>, sII, <<"5">>}
TokB3 == {<<>>, <<"i">>, sII, sIII, sIIII, sXyz, <<"5">>}
TokSub == {<<>>, <<"x">>, <<"y">>, <<"z">>, <<"q", "q">>, <<"5">>}
TokOverlap == {<<>>, sSub, <<"q">>, <<"x">>, <<"k">>, <<"g">>, <<"1">>,
               <<"5">>}

\* Paths named by the tests and the documentation of the router.
ExamplePaths ==
    { PathOf(<<<<"i", "n", "v", "a", "l", "i", "d">>>>),
      PathOf(<<<<"b">>, <<"2">>, <<"i">>, to_string(123000000)>>),
      PathOf(<<<<"b">>, <<"3">>, to_string(345), to_string(123000),
               to_string(1000999)>>),
      PathOf(<<<<"b">>, <<"3">>, to_string(345), to_string(123000),
               <<"i">>, to_string(1000999)>>),
      PathOf(<<<<"b">>, <<"3">>, to_string(345), to_string(123000),
               to_string(1000999), sII>>),
      PathOf(<<<<"b">>, <<"3">>, to_string(345), to_string(123000),
               to_string(1000999), sIII>>),
      PathOf(<<<<"b">>, <<"3">>, to_string(345), to_string(123000), sIII>>),
      PathOf(<<<<"b">>, <<"3">>, to_string(345), to_string(123000), sIIII,
               sXyz>>),
      PathOf(<<<<"b">>, <<"3">>, to_string(345), to_string(123000), sIIII,
               to_string(1000999), sXyz, to_string(10)>>),
      PathOf(<<<<"b">>, <<"3">>, <<"1">>, <<"2">>, sIIII, sXyz,
               <<"a", "b", "c">>>>),
      PathOf(<<<<"b">>, <<"1">>, <<"z", "z", "z">>>>),
      PathOf(<<sSub, <<"n", "o", "p", "e">>>>),
      PathOf(<<sSub, <<"y">>, <<"t", "e", "s", "t", "1", "2", "3">>>>),
      PathOf(<<sSub, <<"z">>, <<"t", "e", "s", "t", "3", "2", "1">>>>) }

\* Paths with a character of two bytes: as the first character, as a
\* segment, and as the last character in front of the end and of a
\* trailing '/'.
NonAsciiPaths ==
    { sE, JoinSlash(<<sE, <<"x">>>>), PathOf(<<sE>>), PathOf(<<sE, <<>>>>),
      PathOf(<<<<"x">>, sE>>), PathOf(<<<<"y">>, sE>>),
      PathOf(<<<<"y">>, sE, <<>>>>), PathOf(<<<<"k">>, sE>>),
      PathOf(<<<<"k">>, <<"1">> \o sE>>), PathOf(<<<<"a">>, sE>>),
      PathOf(<<<<"b">>, <<"2">>, <<"i">>, sE>>),
      PathOf(<<<<"b">>, <<"3">>, <<"1">>, <<"2">>, sE, sIII>>) }

\* What a client may send to TEST_SUB_RPC.
SubPaths ==
    {PathOf(t) : t \in Tails(TokSub, MaxTail)}
        \cup {JoinSlash(t) : t \in Tails(TokSub, MaxSegs)}
        \cup NonAsciiPaths

\* What a client may send to TEST_RPC.
RootPaths ==
    {PathOf(t) : t \in Tails(TokTop, MaxSegs)}
        \cup {JoinSlash(t) : t \in Tails(TokTop, MaxSegs)}
        \cup {PathOf(<<<<"b">>>> \o t) : t \in Tails(TokB, MaxTail)}
        \cup {PathOf(<<<<"b">>, <<"3">>, <<"0", "5">>, <<"7">>>> \o t) :
                 t \in Tails(TokB3, MaxTail)}
        \cup {PathOf(<<<<"b">>, <<"3">>, <<"5">>, <<"7">>, sIIII>> \o t) :
                 t \in Tails(TokB3, MaxTail)}
        \cup {<<"/">> \o sSub \o q : q \in SubPaths}
        \cup ExamplePaths
        \cup NonAsciiPaths

\* What a client may send to OVERLAP_RPC.
OverlapPaths ==
    {PathOf(t) : t \in Tails(TokOverlap, MaxTail)} \cup NonAsciiPaths

Roots == {"TEST_RPC", "TEST_SUB_RPC", "OVERLAP_RPC"}

PathsFor(r) ==
    CASE r = "TEST_RPC" -> RootPaths
      [] r = "TEST_SUB_RPC" -> SubPaths
      [] r = "OVERLAP_RPC" -> OverlapPaths

(***************************************************************************)
(* What internal_handle returns, as a function of the router and the path  *)
(***************************************************************************)

Cursor(ok, s, e, a) ==
    [ok |-> ok, start |-> s, end |-> e, args |-> a, panic |-> FALSE]

\* The thread panicked: no cursor, no break.
PanicCursor ==
    [ok |-> FALSE, start |-> 0, end |-> 0, args |-> <<>>, panic |-> TRUE]

\* The rules of try_match_segments! for the segments i.. of a pattern.
RECURSIVE MatchFrom(_, _, _, _, _, _)
MatchFrom(p, route, i, s, e, a) ==
    IF i > Len(route.pat) THEN Cursor(TRUE, s, e, a)
    ELSE LET m == MatchSeg(p, route, i, s, e)
         IN  IF m.ok
             THEN MatchFrom(p, route, i + 1, m.start, m.end, a \o m.bind)
             ELSE Cursor(FALSE, s, e, a)

\* The cursor with which the segments of a route are matched: behind
\* try_match! for a route of a router, the enclosing cursor for a
\* sub-pattern.
EnterRoute(p, top, s, e, a) ==
    IF top
    THEN CASE TryMatchStart(p, s) = "go" ->
                  Cursor(TRUE, s + 1, find_next_slash_index(p, s + 1), <<>>)
           [] TryMatchStart(p, s) = "break" -> Cursor(FALSE, s, e, <<>>)
           [] TryMatchStart(p, s) = "panic" -> PanicCursor
    ELSE Cursor(TRUE, s, e, a)

MatchRoute(p, r, top, s, e, a) ==
    LET c == EnterRoute(p, top, s, e, a)
    IN  IF c.ok THEN MatchFrom(p, r, 1, c.start, c.end, c.args) ELSE c

Broke == [kind |-> "break", h |-> "", args |-> <<>>, path |-> <<>>]
Hangs == [kind |-> "hang", h |-> "", args |-> <<>>, path |-> <<>>]
Invoked(h, a) == [kind |-> "invoked", h |-> h, args |-> a, path |-> <<>>]
WrongPath(p) == [kind |-> "wrong_path", h |-> "", args |-> <<>>, path |-> p]
\* The request did not return: the thread that ran it panicked.
Panicked == [kind |-> "panic", h |-> "", args |-> <<>>, path |-> <<>>]

\* The loops of a list of routes from the i-th on, and one loop.  "break"
\* is a loop left by `break`; a sub-pattern group whose loops were all
\* left by `break` lets the enclosing loop repeat, with the same outcome
\* every time.
RECURSIVE RunLoops(_, _, _, _, _, _, _)
RECURSIVE RunLoop(_, _, _, _, _, _)
RunLoop(p, r, top, s, e, a) ==
    LET c == MatchRoute(p, r, top, s, e, a)
    IN  IF c.panic THEN Panicked
        ELSE IF ~c.ok THEN Broke
        ELSE CASE r.h.t = "fn" ->
                      IF Terminated(p, c.end) THEN Invoked(r.h.name, c.args)
                      ELSE Broke
               [] r.h.t = "group" ->
                      LET g == RunLoops(p, r.h.alts, 1, FALSE, c.start,
                                        c.end, c.args)
                      IN  IF g.kind = "break" THEN Hangs ELSE g
               [] r.h.t = "sub" ->
                      RunLoops(p, Routers(r.h.name), 1, TRUE,
                               SubStart(c.start), 0, <<>>)
RunLoops(p, routes, i, top, s, e, a) ==
    IF i > Len(routes) THEN (IF top THEN WrongPath(p) ELSE Broke)
    ELSE LET x == RunLoop(p, routes[i], top, s, e, a)
         IN  IF x.kind = "break"
             THEN RunLoops(p, routes, i + 1, top, s, e, a)
             ELSE x

\* Router::internal_handle(ctx, request, start)
internal_handle(name, p, s) == RunLoops(p, Routers(name), 1, TRUE, s, 0, <<>>)

\* Router::handle(ctx, request)
handle(name, p) == internal_handle(name, p, 0)

(***************************************************************************)
(* The routes of a router tree one by one                                  *)
(***************************************************************************)

\* For every leaf handler reachable from a list of routes, in declaration
\* order and depth first: whether its own chain of patterns, tried alone,
\* matches the whole path, and with which arguments.
RECURSIVE LeafList(_, _, _, _, _, _, _, _)
RECURSIVE RouteLeaves(_, _, _, _, _, _, _)
RouteLeaves(p, r, top, s, e, a, live) ==
    LET c == IF live THEN MatchRoute(p, r, top, s, e, a)
             ELSE Cursor(FALSE, 0, 0, <<>>)
    IN  CASE r.h.t = "fn" ->
                 <<[h |-> r.h.name,
                    ok |-> c.ok /\ Terminated(p, c.end),
                    args |-> IF c.ok THEN c.args ELSE <<>>]>>
          [] r.h.t = "group" ->
                 LeafList(p, r.h.alts, 1, FALSE, c.start, c.end, c.args, c.ok)
          [] r.h.t = "sub" ->
                 LeafList(p, Routers(r.h.name), 1, TRUE,
                          IF c.ok THEN SubStart(c.start) ELSE 0, 0, <<>>, c.ok)
LeafList(p, routes, i, top, s, e, a, live) ==
    IF i > Len(routes) THEN <<>>
    ELSE RouteLeaves(p, routes[i], top, s, e, a, live)
             \o LeafList(p, routes, i + 1, top, s, e, a, live)

Leaves(name, p) == LeafList(p, Routers(name), 1, TRUE, 0, 0, <<>>, TRUE)

Matching(name, p) == {i \in 1..Len(Leaves(name, p)) : Leaves(name, p)[i].ok}

(***************************************************************************)
(* Path builders (router_type!, pattern_and_handler_to_method!)            *)
(***************************************************************************)

\* The leaf handlers of a list of routes with their joined patterns
\* ("join pattern with each sub-pattern").  A sub-router's handlers are
\* methods of the sub-router's own type.
RECURSIVE FlatLeaves(_, _)
FlatLeaves(routes, pre) ==
    IF routes = <<>> THEN <<>>
    ELSE LET r == Head(routes)
             here == CASE r.h.t = "fn" ->
                              <<[name |-> r.h.name, pat |-> pre \o r.pat]>>
                       [] r.h.t = "group" ->
                              FlatLeaves(r.h.alts, pre \o r.pat)
                       [] r.h.t = "sub" -> <<>>
         IN  here \o FlatLeaves(Tail(routes), pre)

\* The prefix of the sub-router returned by the parent's accessor:
\* [self.prefix, literals...].join("/").
SubPrefix(prefix, pat) ==
    JoinSlash(<<prefix>> \o [i \in 1..Len(pat) |-> pat[i].s])

\* The Some(..) entries a pattern contributes to the path: a literal
\* itself, an untyped argument its text, a typed argument its to_string(),
\* an optional argument its to_string() or nothing.
RECURSIVE PathParts(_, _)
PathParts(pat, a) ==
    IF pat = <<>> THEN <<>>
    ELSE LET sg == Head(pat)
         IN  CASE sg.k = "lit" -> <<sg.s>> \o PathParts(Tail(pat), a)
               [] sg.k = "untyped" ->
                      <<Head(a).s>> \o PathParts(Tail(pat), Tail(a))
               [] sg.k = "typed" ->
                      <<to_string(Head(a).n)>> \o PathParts(Tail(pat), Tail(a))
               [] sg.k = "opt" ->
                      (IF Head(a).t = "some" THEN <<to_string(Head(a).n)>>
                       ELSE <<>>) \o PathParts(Tail(pat), Tail(a))

\* handler_path without self.prefix in front.
handler_path_no_prefix(prefix, pat, a) == JoinSlash(PathParts(pat, a))

\* fn <handle>_path(&self, params...) -> String
handler_path(prefix, pat, a) == JoinSlash(<<prefix>> \o PathParts(pat, a))

\* Argument values the clients pass to the path builders.
ArgVals == {0, 7, 120}
ArgTexts == {<<>>, <<"5">>, <<"x">>, <<"t", "1">>}

RECURSIVE ArgTuples(_)
ArgTuples(pat) ==
    IF pat = <<>> THEN {<<>>}
    ELSE LET rest == ArgTuples(Tail(pat))
             k == Head(pat).k
         IN  CASE k = "lit" -> rest
               [] k = "typed" ->
                      {<<ValArg(v)>> \o r : v \in ArgVals, r \in rest}
               [] k = "opt" ->
                      {<<x>> \o r :
                          x \in {NoneArg} \cup {SomeArg(v) : v \in ArgVals},
                          r \in rest}
               [] k = "untyped" ->
                      {<<StrArg(t)>> \o r : t \in ArgTexts, r \in rest}

\* The requests of the generated client methods of a router type
\* constructed with the given prefix.
MethodRequests(name, prefix) ==
    LET leaves == FlatLeaves(Routers(name), <<>>)
    IN  UNION { { [h |-> leaves[i].name, args |-> a,
                   path |-> handler_path(prefix, leaves[i].pat, a)] :
                      a \in ArgTuples(leaves[i].pat) } :
                  i \in 1..Len(leaves) }

\* TEST_RPC.<h>(..) and TEST_RPC.test_sub_rpc().<h>(..)
BuiltRequests ==
    MethodRequests("TEST_RPC", <<>>)
        \cup MethodRequests("TEST_SUB_RPC",
                            SubPrefix(<<>>, TEST_RPC[1].pat))

(***************************************************************************)
(* The matcher as a state machine                                          *)
(***************************************************************************)

VARIABLES
    root,     \* the router the request is handed to
    path,     \* request.path
    req,      \* the handler and arguments the path was built for, if any
    rtr,      \* the router whose internal_handle is running
    pos,      \* the loop being executed: alternative indices, outermost first
    saved,    \* per nesting level, the cursor and arguments in scope there
    start,    \* $start of the innermost loop
    end,      \* $end of the innermost loop
    seg,      \* index of the next segment of the current pattern
    args,     \* $matched_args
    cons,     \* offset behind the last path text a rule of this attempt took
    last,     \* the rule applied last: its kind, where, on what text, ok
    pc,       \* "try_match", "segments", "group_end", "no_match", "done"
    result,   \* what internal_handle returned
    calls     \* handler invocations so far

vars == <<root, path, req, rtr, pos, saved, start, end, seg, args, cons,
          last, pc, result, calls>>

NoResult == [kind |-> "none", h |-> "", args |-> <<>>, path |-> <<>>]
NoReq == [h |-> "", args |-> <<>>]
NoRule == [rule |-> "none", from |-> 0, text |-> <<>>, ok |-> FALSE]

CurRoute == RouteAt(Routers(rtr), pos)
CurAlts == AltsAt(Routers(rtr), pos)

Entry(s, e, a, c) == [start |-> s, end |-> e, args |-> a, cons |-> c]

Init ==
    /\ \/ /\ root \in Roots
          /\ path \in PathsFor(root)
          /\ req = NoReq
       \/ /\ root = "TEST_RPC"
          /\ \E b \in BuiltRequests :
                 /\ path = b.path
                 /\ req = [h |-> b.h, args |-> b.args]
    /\ rtr = root
    /\ pos = <<1>>
    /\ saved = <<Entry(0, 0, <<>>, 0)>>
    /\ start = 0
    /\ end = 0
    /\ seg = 1
    /\ args = <<>>
    /\ cons = 0
    /\ last = NoRule
    /\ pc = "try_match"
    /\ result = NoResult
    /\ calls = 0

\* Break passing over the loop that follows.
BreakSkipsOne ==
    LET k == Len(pos)
    IN  IF pos[k] + 1 < Len(CurAlts)
        THEN /\ pos' = [pos EXCEPT ![k] = @ + 2]
             /\ start' = saved[k].start
             /\ end' = saved[k].end
             /\ args' = saved[k].args
             /\ cons' = saved[k].cons
             /\ seg' = 1
             /\ pc' = IF k = 1 THEN "try_match" ELSE "segments"
             /\ UNCHANGED <<root, path, req, rtr, saved, result, calls>>
        ELSE /\ pc' = IF k = 1 THEN "no_match" ELSE "group_end"
             /\ UNCHANGED <<root, path, req, rtr, pos, saved, start, end,
                            seg, args, cons, result, calls>>

\* Break leaving the cursor and the arguments of the loop it leaves to the
\* next loop.
BreakKeepsCursor ==
    LET k == Len(pos)
    IN  IF pos[k] < Len(CurAlts)
        THEN /\ pos' = [pos EXCEPT ![k] = @ + 1]
             /\ seg' = 1
             /\ pc' = IF k = 1 THEN "try_match" ELSE "segments"
             /\ UNCHANGED <<root, path, req, rtr, saved, start, end, args,
                            cons, result, calls>>
        ELSE /\ pc' = IF k = 1 THEN "no_match" ELSE "group_end"
             /\ UNCHANGED <<root, path, req, rtr, pos, saved, start, end,
                            seg, args, cons, result, calls>>

\* `break`: leave the innermost loop.  The next loop of the same list of
\* alternatives starts from the cursor and arguments of the enclosing
\* scope; behind the last loop of a sub-pattern group the body of the
\* enclosing loop ends, behind the last loop of internal_handle comes its
\* final `return Err(WrongPath)`.
Break ==
    LET k == Len(pos)
    IN  IF pos[k] < Len(CurAlts)
        THEN /\ pos' = [pos EXCEPT ![k] = @ + 1]
             /\ start' = saved[k].start
             /\ end' = saved[k].end
             /\ args' = saved[k].args
             /\ cons' = saved[k].cons
             /\ seg' = 1
             /\ pc' = IF k = 1 THEN "try_match" ELSE "segments"
             /\ UNCHANGED <<root, path, req, rtr, saved, result, calls>>
        ELSE /\ pc' = IF k = 1 THEN "no_match" ELSE "group_end"
             /\ UNCHANGED <<root, path, req, rtr, pos, saved, start, end,
                            seg, args, cons, result, calls>>

\* try_match!: check the initial '/', advance past it, find the end of
\* the first segment.  The check slices &path[..1] and panics when the
\* first character of the path is longer than one byte.
TryMatch ==
    /\ pc = "try_match"
    /\ last' = [rule |-> "try_match", from |-> start, text |-> <<>>,
                ok |-> TryMatchStart(path, start) = "go"]
    /\ CASE TryMatchStart(path, start) = "go" ->
               /\ start' = start + 1
               /\ end' = find_next_slash_index(path, start + 1)
               /\ seg' = 1
               /\ args' = <<>>
               /\ cons' = start + 1
               /\ pc' = "segments"
               /\ UNCHANGED <<root, path, req, rtr, pos, saved, result,
                              calls>>
         [] TryMatchStart(path, start) = "break" -> Break
         [] TryMatchStart(path, start) = "panic" ->
               /\ result' = Panicked
               /\ pc' = "done"
               /\ UNCHANGED <<root, path, req, rtr, pos, saved, start, end,
                              seg, args, cons, calls>>

\* The effect of one rule of try_match_segments! with outcome m.
SegmentStep(kind, m) ==
    /\ last' = [rule |-> kind, from |-> start, text |-> m.text, ok |-> m.ok]
    /\ IF m.ok
       THEN /\ start' = m.start
            /\ end' = m.end
            /\ args' = args \o m.bind
            /\ cons' = IF m.start = start /\ kind = "opt" THEN cons
                       ELSE start + Len(m.text)
            /\ seg' = seg + 1
            /\ UNCHANGED <<root, path, req, rtr, pos, saved, pc, result,
                           calls>>
       ELSE Break

AtSegment(kind) ==
    /\ pc = "segments"
    /\ seg <= Len(CurRoute.pat)
    /\ SegKind(CurRoute, seg) = kind

Literal ==
    /\ AtSegment("lit")
    /\ SegmentStep("lit", MatchLiteral(path, start, end, CurRoute.pat[seg].s))

UntypedArg ==
    /\ AtSegment("untyped")
    /\ SegmentStep("untyped", MatchUntyped(path, start, end))

OptArg ==
    /\ AtSegment("opt")
    /\ SegmentStep("opt", MatchOpt(path, start, end))

CatchAllArg ==
    /\ AtSegment("catchall")
    /\ SegmentStep("catchall", MatchCatchAll(path, start, end))

TypedArg ==
    /\ AtSegment("typed")
    /\ SegmentStep("typed", MatchTyped(path, start, end))

\* The pattern is matched and its handle is a sub-pattern group: one loop
\* per sub-pattern, each starting from the cursor reached here.
EnterGroup ==
    /\ pc = "segments"
    /\ seg > Len(CurRoute.pat)
    /\ CurRoute.h.t = "group"
    /\ pos' = Append(pos, 1)
    /\ saved' = Append(saved, Entry(start, end, args, cons))
    /\ seg' = 1
    /\ last' = [rule |-> "group", from |-> start, text |-> <<>>, ok |-> TRUE]
    /\ UNCHANGED <<root, path, req, rtr, start, end, args, cons, pc, result,
                   calls>>

\* The body of a loop ended without `break` or `return`: every loop of its
\* sub-pattern group was left by `break`.  The loop starts over.
LoopRepeats ==
    /\ pc = "group_end"
    /\ LET k == Len(pos) - 1
       IN  /\ pos' = SubSeq(pos, 1, k)
           /\ saved' = SubSeq(saved, 1, k)
           /\ start' = saved[k].start
           /\ end' = saved[k].end
           /\ args' = saved[k].args
           /\ cons' = saved[k].cons
           /\ seg' = 1
           /\ pc' = IF k = 1 THEN "try_match" ELSE "segments"
    /\ last' = [rule |-> "repeat", from |-> start, text |-> <<>>, ok |-> TRUE]
    /\ UNCHANGED <<root, path, req, rtr, result, calls>>

\* handle_match!, nested router: undo the last '/' advance and return what
\* the sub-router's internal_handle returns.
Delegate ==
    /\ pc = "segments"
    /\ seg > Len(CurRoute.pat)
    /\ CurRoute.h.t = "sub"
    /\ rtr' = CurRoute.h.name
    /\ pos' = <<1>>
    /\ saved' = <<Entry(SubStart(start), 0, <<>>, cons)>>
    /\ start' = SubStart(start)
    /\ end' = 0
    /\ seg' = 1
    /\ args' = <<>>
    /\ pc' = "try_match"
    /\ last' = [rule |-> "sub", from |-> start, text |-> <<>>, ok |-> TRUE]
    /\ UNCHANGED <<root, path, req, cons, result, calls>>

HandlerOutcomes == {"ok", "handler_error", "encoding_error"}

\* Invoke calling the handler again instead of returning its result.
InvokeAgain ==
    /\ calls' = calls + 1
    /\ UNCHANGED <<root, path, req, rtr, pos, saved, start, end, seg, args,
                   cons, pc, result>>

\* The call of the handler function and the encoding of its result: the
\* handler's Err and the encoder's Err are returned by `?`.
Invoke ==
    /\ \E out \in HandlerOutcomes :
           result' = [kind |-> out, h |-> CurRoute.h.name, args |-> args,
                      path |-> <<>>]
    /\ calls' = calls + 1
    /\ pc' = "done"
    /\ UNCHANGED <<root, path, req, rtr, pos, saved, start, end, seg, args,
                   cons>>

\* handle_match!, handler function: the end-of-path check, then the call.
Handle ==
    /\ pc = "segments"
    /\ seg > Len(CurRoute.pat)
    /\ CurRoute.h.t = "fn"
    /\ last' = [rule |-> "handle", from |-> start, text |-> <<>>,
                ok |-> Terminated(path, end)]
    /\ IF Terminated(path, end) THEN Invoke ELSE Break

\* ReturnWrongPath handing a sub-router's WrongPath to the parent as a
\* `break` of the sub-router's route.
ReturnWrongPathToParent ==
    /\ pc = "no_match"
    /\ IF rtr # root
       THEN LET i == CHOOSE j \in 1..Len(Routers(root)) :
                         /\ Routers(root)[j].h.t = "sub"
                         /\ Routers(root)[j].h.name = rtr
            IN  /\ rtr' = root
                /\ pos' = <<i + 1>>
                /\ saved' = <<Entry(0, 0, <<>>, 0)>>
                /\ start' = 0
                /\ end' = 0
                /\ seg' = 1
                /\ args' = <<>>
                /\ cons' = 0
                /\ pc' = "try_match"
                /\ UNCHANGED <<root, path, req, last, result, calls>>
       ELSE /\ result' = [kind |-> "wrong_path", h |-> "", args |-> <<>>,
                          path |-> path]
            /\ pc' = "done"
            /\ UNCHANGED <<root, path, req, rtr, pos, saved, start, end, seg,
                           args, cons, last, calls>>

\* internal_handle: behind the last loop, `return Err(WrongPath(path))`.
ReturnWrongPath ==
    /\ pc = "no_match"
    /\ result' = [kind |-> "wrong_path", h |-> "", args |-> <<>>,
                  path |-> path]
    /\ pc' = "done"
    /\ UNCHANGED <<root, path, req, rtr, pos, saved, start, end, seg, args,
                   cons, last, calls>>

Next ==
    \/ TryMatch
    \/ Literal
    \/ UntypedArg
    \/ OptArg
    \/ CatchAllArg
    \/ TypedArg
    \/ EnterGroup
    \/ LoopRepeats
    \/ Delegate
    \/ Handle
    \/ ReturnWrongPath

Spec == Init /\ [][Next]_vars

\* Requests to TEST_RPC with the short paths and the documented ones.
ShortInit ==
    /\ root = "TEST_RPC"
    /\ path \in {PathOf(t) : t \in Tails(TokTop, MaxSegs)} \cup ExamplePaths
    /\ req = NoReq
    /\ rtr = root
    /\ pos = <<1>>
    /\ saved = <<Entry(0, 0, <<>>, 0)>>
    /\ start = 0
    /\ end = 0
    /\ seg = 1
    /\ args = <<>>
    /\ cons = 0
    /\ last = NoRule
    /\ pc = "try_match"
    /\ result = NoResult
    /\ calls = 0

\* The matcher runs to its return without waiting for anything: a step
\* that can be taken is taken.
FairSpec == ShortInit /\ [][Next]_vars /\ WF_vars(Next)

(***************************************************************************)
(* The state machine against the function                                  *)
(***************************************************************************)

\* What the state machine returned, as internal_handle's outcome.
Returned ==
    IF result.kind \in HandlerOutcomes THEN Invoked(result.h, result.args)
    ELSE result

\* The state machine returns what handle(root, path) says, and repeats a
\* loop exactly when handle says the request hangs.
StepsAgreeWithFunction ==
    /\ pc = "done" => Returned = handle(root, path)
    /\ pc = "group_end" => handle(root, path) = Hangs
    /\ pc = "no_match" => handle(root, path) = WrongPath(path)

\* &path[..1] of try_match! is the only slice that can cut a character in
\* two: while segments are matched, start and end are character boundaries
\* (behind a '/', on a '/', or at the end of the path).
SlicesOnCharBoundaries ==
    pc = "segments" =>
        /\ is_char_boundary(path, start)
        /\ is_char_boundary(path, end)
        /\ start <= end /\ end <= Len(path)

(***************************************************************************)
(* Properties                                                              *)
(***************************************************************************)

HandlerInvoked == pc = "done" /\ result.kind \in HandlerOutcomes

\* The kind of the last segment of the route whose handler was invoked.
LastKind == SegKind(CurRoute, Len(CurRoute.pat))

EndsWithSlash(p) == p # <<>> /\ p[Len(p)] = "/"

HasSlash(t) == \E i \in 1..Len(t) : t[i] = "/"

\* The next state belongs to another loop: the attempt was left by break.
Aborted == pos' # pos \/ pc' \in {"group_end", "no_match"}

PathB3(tail) ==
    PathOf(<<<<"b">>, <<"3">>, to_string(345), to_string(123000)>> \o tail)

\* C1: round trip.  A request whose path a generated <h>_path(args) built
\* never runs into a repeating loop or WrongPath, and returns from exactly
\* one call, of handler h with exactly the arguments args.
C1_RoundTrip ==
    req # NoReq =>
        /\ pc \notin {"group_end", "no_match"}
        /\ pc = "done" =>
               /\ result.kind \in HandlerOutcomes
               /\ result.h = req.h
               /\ result.args = req.args
               /\ calls = 1

C1_Witness ==
    /\ pc = "done"
    /\ req.h = "b3iiii"
    /\ req.args[3] = NoneArg
    /\ req.args[4] = SomeArg(120)
    /\ result.args = req.args

\* C2: declaration order.  The handler that is invoked is the handler of
\* the first route, in declaration order and depth first, whose patterns
\* match the whole path, with that route's arguments; the handler of a
\* later route that matches too is not invoked.
C2_DeclarationOrder ==
    HandlerInvoked =>
        LET L == Leaves(root, path)
            M == {i \in 1..Len(L) : L[i].ok}
        IN  /\ M # {}
            /\ LET f == CHOOSE i \in M : \A j \in M : i <= j
               IN  /\ L[f].h = result.h
                   /\ L[f].args = result.args

C2_Witness ==
    /\ HandlerInvoked
    /\ Cardinality(Matching(root, path)) >= 2

\* C3 as stated: whatever the kind of the last segment of the route, a
\* path not ending in '/' that resolves to a handler resolves to the same
\* handler with the same arguments when '/' is appended.
C3_AnyLastSegment ==
    (HandlerInvoked /\ ~EndsWithSlash(path) /\ root = "TEST_RPC") =>
        handle(root, path \o <<"/">>) = Invoked(result.h, result.args)

\* C3, amended: the same for the routes whose last segment is a literal,
\* an untyped argument or an optional typed argument.
C3_TrailingSlash ==
    (HandlerInvoked /\ ~EndsWithSlash(path) /\ LastKind # "catchall") =>
        handle(root, path \o <<"/">>) = Invoked(result.h, result.args)

C3_Witness ==
    /\ HandlerInvoked
    /\ ~EndsWithSlash(path)
    /\ LastKind = "opt"
    /\ args[Len(args)].t = "some"
    /\ handle(root, path \o <<"/">>) = Invoked(result.h, result.args)

\* C4: a handler is invoked only when, behind the text taken by the last
\* segment of its route, the path holds nothing or one single '/'.
C4_WholePathConsumed ==
    (HandlerInvoked /\ root = "TEST_RPC") => Slice(path, cons, Len(path)) \in {<<>>, <<"/">>}

\* C5: when no route of the router tree matches the path, the request
\* returns WrongPath with the whole request path and no handler is called.
C5_NoMatchIsWrongPath ==
    (Matching(root, path) = {})
        ~> (pc = "done" /\ result = WrongPath(path) /\ calls = 0)

\* C6: optional fallback.  An optional argument whose segment does not
\* parse is bound to None and leaves the route, the cursor and the
\* position in the pattern's remainder as they are, to be matched against
\* the same segment; one that parses is bound to Some(value) and moves the
\* cursor over that segment and one '/'.  The two paths of the claim reach
\* b3iii with a3 = None and b3iiii with a3 = None, a4 = None.
C6_OptionalFallback ==
    [][ /\ AtSegment("opt") =>
              /\ pos' = pos /\ rtr' = rtr /\ seg' = seg + 1
              /\ pc' = "segments"
              /\ IF ParseArg(Slice(path, start, end)).ok
                 THEN /\ args' = Append(args,
                              SomeArg(ParseArg(Slice(path, start, end)).v))
                      /\ ~HasSlash(Slice(path, start, end))
                      /\ start' \in {end, end + 1}
                      /\ start' = end + 1 => path[end + 1] = "/"
                      /\ start' = end => end + 1 >= Len(path)
                      /\ end' >= start'
                      /\ ~HasSlash(Slice(path, start', end'))
                      /\ end' = Len(path) \/ path[end' + 1] = "/"
                 ELSE /\ args' = Append(args, NoneArg)
                      /\ start' = start
                      /\ end' = end
        /\ path \in {PathB3(<<sIII>>), PathB3(<<sIIII, sXyz>>)} =>
              /\ pc' \notin {"group_end", "no_match"}
              /\ pc' = "done" =>
                     /\ result'.kind \in HandlerOutcomes
                     /\ path = PathB3(<<sIII>>) =>
                            /\ result'.h = "b3iii"
                            /\ result'.args =
                                   <<ValArg(345), ValArg(123000), NoneArg>>
                     /\ path = PathB3(<<sIIII, sXyz>>) =>
                            /\ result'.h = "b3iiii"
                            /\ result'.args = <<ValArg(345), ValArg(123000),
                                                NoneArg, NoneArg>>
      ]_vars

C6_Witness ==
    /\ last.rule = "opt"
    /\ args[Len(args)] = NoneArg
    /\ start = last.from
    /\ last.text # <<>>
    /\ AtSegment("lit")
    /\ CurRoute.pat[seg].s = last.text

\* C7: catch-all.  A required typed argument that ends the route of a
\* handler is parsed from the whole rest of the path, slashes included,
\* and the route is left when that text does not parse; a required typed
\* argument elsewhere is parsed from the text up to the next '/'.
C7_CatchAll ==
    [][ /\ AtSegment("catchall") =>
              /\ last'.text = Slice(path, start, Len(path))
              /\ IF ParseArg(Slice(path, start, Len(path))).ok
                 THEN /\ pos' = pos /\ seg' = seg + 1
                      /\ args' = Append(args,
                            ValArg(ParseArg(Slice(path, start, Len(path))).v))
                 ELSE Aborted
        /\ AtSegment("typed") =>
              /\ last'.text =
                     Slice(path, start, find_next_slash_index(path, start))
              /\ ~HasSlash(last'.text)
              /\ IF ParseArg(last'.text).ok
                 THEN /\ pos' = pos /\ seg' = seg + 1
                      /\ args' = Append(args, ValArg(ParseArg(last'.text).v))
                 ELSE Aborted
      ]_vars

C7_Witness ==
    /\ last.rule = "catchall"
    /\ HasSlash(last.text)
    /\ ParseArg(Slice(last.text, 0, find_next_slash_index(last.text, 0))).ok
    /\ ~last.ok

\* C8: sub-router rewind.  Whatever TEST_SUB_RPC returns for a path q,
\* TEST_RPC returns for "/sub" followed by q: the same handler with the
\* same arguments, or no match.
C8_SubRouterRewind ==
    root = "TEST_SUB_RPC" =>
        /\ pc # "group_end"
        /\ pc = "done" =>
               IF result.kind = "wrong_path"
               THEN handle("TEST_RPC", <<"/">> \o sSub \o path).kind
                        = "wrong_path"
               ELSE handle("TEST_RPC", <<"/">> \o sSub \o path)
                        = Invoked(result.h, result.args)

\* C9: once a handler was called the request is over: one call, its
\* result (an error included) returned, nothing left to run.
C9_HandlerErrorReturned ==
    /\ calls >= 1 =>
           /\ calls = 1
           /\ pc = "done"
           /\ result.kind \in HandlerOutcomes
    /\ pc = "done" => ~ENABLED Next

C9_Witness ==
    /\ pc = "done"
    /\ result.kind = "handler_error"
    /\ calls = 1

\* C10: every request ends, in one of the four outcomes, after at most one
\* call of a handler, and in WrongPath only when no handler was called.
C10_FourOutcomes ==
    <>( /\ pc = "done"
        /\ result.kind \in HandlerOutcomes \cup {"wrong_path"}
        /\ calls <= 1
        /\ result.kind = "wrong_path" => calls = 0 )

\* The text of the path segment that begins at offset s: up to the next
\* '/' or the end of the path.
SegmentAt(p, s) == Slice(p, s, find_next_slash_index(p, s))

\* C11: literal exact match.  Whenever a literal of a pattern is compared,
\* the cursor spans one whole path segment (it begins behind a '/' or at
\* the last offset of the path, and runs to the next '/' or the end of the
\* path), and the route goes on exactly when that segment equals the
\* literal, character by character; else the route is left.  So "/b/0/ii"
\* never returns from b0i, and "/A" never returns from a handler.
C11_LiteralExact ==
    [][ /\ AtSegment("lit") =>
              /\ last'.text = SegmentAt(path, start)
              /\ ~HasSlash(last'.text)
              /\ start >= Len(path) - 1 \/ path[start] = "/"
              /\ last'.ok <=> (last'.text = CurRoute.pat[seg].s)
              /\ IF last'.text = CurRoute.pat[seg].s
                 THEN pos' = pos /\ seg' = seg + 1
                 ELSE Aborted
        /\ (path = PathOf(<<<<"b">>, <<"0">>, sII>>) /\ pc' = "done") =>
              (result'.kind \in HandlerOutcomes /\ result'.h = "b0ii")
        /\ path = PathOf(<<<<"A">>>>) => calls' = 0
      ]_vars

C11_Witness ==
    /\ path = PathOf(<<<<"b">>, <<"0">>, sII>>)
    /\ HandlerInvoked
    /\ result.h = "b0ii"

\* The path is empty, does not begin with '/', or is "/".
NoFirstSegment(p) == p = <<>> \/ p[1] # "/" \/ p = <<"/">>

\* C12: a request whose path is empty, does not begin with '/' or is "/"
\* is answered with WrongPath of that path: no segment is ever compared
\* and no handler is called.
C12_NoFirstSegment ==
    NoFirstSegment(path) =>
        /\ handle(root, path) = WrongPath(path)
        /\ last.rule \in {"none", "try_match"}
        /\ ~last.ok
        /\ pc # "group_end"
        /\ calls = 0
        /\ pc = "done" => result = WrongPath(path)

\* The cursor and arguments with which the alternatives of the list that
\* holds the loop at position ps are entered: the router's start offset
\* for its routes, the cursor behind the enclosing patterns for the
\* sub-patterns of a group.  Computed from the path and the enclosing
\* patterns alone.
RECURSIVE GroupEntry(_, _, _, _, _, _, _)
GroupEntry(p, routes, ps, top, s, e, a) ==
    IF Len(ps) = 1 THEN Cursor(TRUE, s, e, a)
    ELSE LET c == MatchRoute(p, routes[ps[1]], top, s, e, a)
         IN  GroupEntry(p, routes[ps[1]].h.alts, Tail(ps), FALSE,
                        c.start, c.end, c.args)

\* The start offset with which router `name` runs in a request handed to
\* router `rt`: 0 for rt itself, the rewound offset behind the prefix of
\* its route for a sub-router.
RouterStart(rt, name, p) ==
    IF name = rt THEN 0
    ELSE LET i == CHOOSE j \in 1..Len(Routers(rt)) :
                      /\ Routers(rt)[j].h.t = "sub"
                      /\ Routers(rt)[j].h.name = name
         IN  SubStart(MatchRoute(p, Routers(rt)[i], TRUE, 0, 0, <<>>).start)

\* A loop is about to begin: try_match! of a route of a router, or the
\* first segment of a sub-pattern.
AtCandidateStart ==
    \/ pc = "try_match"
    \/ pc = "segments" /\ seg = 1 /\ Len(pos) > 1

\* C13: cursor isolation.  Every loop begins with the cursor that was
\* current where its list of alternatives was entered - the start offset
\* passed to the router for its routes, the cursor and arguments behind
\* the shared prefix patterns for the sub-patterns of a group - whatever
\* the loops tried before it did to their cursors.
C13_CursorIsolation ==
    AtCandidateStart =>
        LET g == GroupEntry(path, Routers(rtr), pos, TRUE,
                            RouterStart(root, rtr, path), 0, <<>>)
        IN  /\ start = g.start
            /\ Len(pos) > 1 => (end = g.end /\ args = g.args)
            /\ Len(pos) = 1 => args = <<>>

\* A sub-pattern begins behind one that parsed an argument, moved over
\* it, and was left at the literal that follows.
C13_Witness ==
    /\ AtCandidateStart
    /\ Len(pos) > 1
    /\ pos[Len(pos)] > 1
    /\ last.rule = "lit"
    /\ ~last.ok
    /\ last.from > start
    /\ ParseArg(Slice(path, start, last.from - 1)).ok
    /\ start = GroupEntry(path, Routers(rtr), pos, TRUE,
                          RouterStart(root, rtr, path), 0, <<>>).start

\* A rule of try_match_segments! that compares or parses text is next.
AtAnySegment == pc = "segments" /\ seg <= Len(CurRoute.pat)

\* C14 as stated: in every state of a match attempt from the first
\* segment on, `end` is find_next_slash_index(path, start), and the text
\* every rule compares or parses is the text from `start` to that index.
C14_EndIsNextSlash ==
    [][ root = "TEST_RPC" =>
            /\ pc' = "segments" => end' = find_next_slash_index(path, start')
            /\ AtAnySegment => last'.text = SegmentAt(path, start)
      ]_vars

\* C14, amended: the same for every rule but the terminal typed argument,
\* which sets `end` to the length of the path before it parses: there the
\* text parsed is the whole rest of the path, and `end` stays the length
\* of the path up to the termination check.
C14_CursorEnd ==
    [][ /\ (pc' = "segments" /\ ~(last'.rule = "catchall" /\ last'.ok)) =>
              end' = find_next_slash_index(path, start')
        /\ (pc' = "segments" /\ last'.rule = "catchall" /\ last'.ok) =>
              (end' = Len(path) /\ end' >= find_next_slash_index(path, start'))
        /\ (AtAnySegment /\ ~AtSegment("catchall")) =>
              (/\ end = find_next_slash_index(path, start)
               /\ last'.text = Slice(path, start, end))
        /\ AtSegment("catchall") =>
              last'.text = Slice(path, start, Len(path))
      ]_vars

\* The terminal typed argument was parsed from text that runs beyond the
\* next '/'.
C14_Witness ==
    /\ last.rule = "catchall"
    /\ last.from + Len(last.text) = Len(path)
    /\ find_next_slash_index(path, last.from) < Len(path) - 1

\* The sub-router arm of handle_match! is next.
AtDelegation ==
    /\ pc = "segments"
    /\ seg > Len(CurRoute.pat)
    /\ CurRoute.h.t = "sub"

\* C15: index safety.  For every ASCII path: whenever a rule slices
\* path[start..end], the termination check slices path[end..], or
\* try_match! calls find_next_slash_index(path, start),
\* 0 <= start <= end <= path length; and start >= 1 where the sub-router
\* arm subtracts 1 from it.
C15_IndexSafety ==
    IsAscii(path) =>
        /\ start >= 0
        /\ pc = "segments" => (start <= end /\ end <= Len(path))
        /\ pc = "try_match" => start <= Len(path)
        /\ AtDelegation => start >= 1
        /\ last.rule = "sub" => (last.from >= 1 /\ start = last.from - 1)

\* The sub-router arm ran with the cursor at the very end of the path.
C15_Witness ==
    /\ last.rule = "sub"
    /\ last.from = Len(path)
    /\ start = Len(path) - 1
    /\ pc = "try_match"

\* C16: sub-router delegation commits.  Once a sub-router runs, no route
\* of the parent runs any more, and what the request returns is what the
\* sub-router's internal_handle returns from the rewound start, WrongPath
\* with the whole request path included - also when a route declared
\* behind the sub-router's in the parent matches the path.
C16_DelegationCommits ==
    [][ /\ rtr # root => rtr' = rtr
        /\ (rtr' # root /\ pc' = "done") =>
              /\ Returned' = internal_handle(rtr', path,
                                             RouterStart(root, rtr', path))
              /\ result'.kind = "wrong_path" => result'.path = path
      ]_vars

\* The sub-router returned WrongPath for a path that a later route of the
\* parent matches.
C16_Witness ==
    /\ rtr # root
    /\ pc = "done"
    /\ result = WrongPath(path)
    /\ \E i \in Matching(root, path) : Leaves(root, path)[i].h = "sq"

\* C17: an untyped argument never leaves its route: it is bound to the
\* text from the cursor's start to the next '/', which holds no '/' and is
\* empty when the path has ended, and the pattern goes on.  "/sub/y" and
\* "/sub/y/" resolve to y with the empty text; the required typed argument
\* of b2i leaves its route on the empty text of "/b/2/i", and no handler
\* is called.
C17_UntypedNeverAborts ==
    [][ /\ AtSegment("untyped") =>
              /\ pos' = pos /\ rtr' = rtr /\ pc' = "segments"
              /\ seg' = seg + 1
              /\ args' = Append(args, StrArg(SegmentAt(path, start)))
              /\ ~HasSlash(SegmentAt(path, start))
              /\ start >= Len(path) => args'[Len(args')] = StrArg(<<>>)
        /\ (root = "TEST_RPC"
              /\ path \in {PathOf(<<sSub, <<"y">>>>),
                           PathOf(<<sSub, <<"y">>, <<>>>>)}) =>
              /\ handle(root, path) = Invoked("y", <<StrArg(<<>>)>>)
              /\ pc' = "done" =>
                     (/\ result'.kind \in HandlerOutcomes
                      /\ result'.h = "y"
                      /\ result'.args = <<StrArg(<<>>)>>)
        /\ (root = "TEST_RPC"
              /\ path = PathOf(<<<<"b">>, <<"2">>, <<"i">>>>)) =>
              /\ calls' = 0
              /\ AtSegment("catchall") =>
                     (last'.text = <<>> /\ ~last'.ok /\ Aborted)
      ]_vars

C17_Witness ==
    /\ root = "TEST_RPC"
    /\ path = PathOf(<<sSub, <<"y">>, <<>>>>)
    /\ HandlerInvoked
    /\ result.h = "y"
    /\ result.args = <<StrArg(<<>>)>>
    /\ last.rule = "handle"

====
